---- MODULE Spec2Model ----
(***************************************************************************)
(* Model of the todo-list manager: the TodoList class (in-memory list,     *)
(* filter, validation, import/export) and the StorageUtils adapter over    *)
(* localStorage.                                                           *)
(*                                                                         *)
(* Strings are run-length encoded: a string is a sequence of runs          *)
(* [c |-> character, n |-> repetitions], adjacent runs having different    *)
(* characters.  This keeps the 200-character limit of the program as it    *)
(* is while the texts stay small.                                          *)
(*                                                                         *)
(* JavaScript values are records [t, s, n, b]: t is the typeof/kind tag,   *)
(* s the payload of a string, n of a number or of a Date (milliseconds),   *)
(* b of a boolean (for a Date: whether it is a valid date).                *)
(***************************************************************************)
EXTENDS Integers, Sequences, FiniteSets, TLC

\* ------------------------------------------------------------------ bounds

\* Most calls of the TodoList one run makes after the page is opened.
MaxCalls == 2

\* The clock runs over 0..MaxClock milliseconds.
MaxClock == 1

\* Most storage writes that fail in one run.
MaxFailures == 1

\* Longest text accepted after trimming.
MaxTextLength == 200

\* ----------------------------------------------------------------- strings

Run(c, n) == [c |-> c, n |-> n]

\* The empty string.
EmptyStr == << >>

\* A string of one character repeated n times.
Rep(c, n) == << Run(c, n) >>

\* White space as String.prototype.trim and the regular expression \s see it.
IsWhiteSpace(c) == c \in {" ", "TAB"}

RECURSIVE StrLength(_)
StrLength(s) == IF s = << >> THEN 0 ELSE Head(s).n + StrLength(Tail(s))

\* Concatenation, merging the runs that meet when they hold the same character.
Concat(s, u) ==
    IF s = << >> THEN u
    ELSE IF u = << >> THEN s
    ELSE IF s[Len(s)].c = u[1].c
         THEN SubSeq(s, 1, Len(s) - 1)
              \o << Run(u[1].c, s[Len(s)].n + u[1].n) >>
              \o Tail(u)
         ELSE s \o u

RECURSIVE TrimStart(_)
TrimStart(s) ==
    IF s = << >> THEN s
    ELSE IF IsWhiteSpace(Head(s).c) THEN TrimStart(Tail(s))
    ELSE s

RECURSIVE TrimEnd(_)
TrimEnd(s) ==
    IF s = << >> THEN s
    ELSE IF IsWhiteSpace(s[Len(s)].c) THEN TrimEnd(SubSeq(s, 1, Len(s) - 1))
    ELSE s

\* String.prototype.trim
Trim(s) == TrimEnd(TrimStart(s))

\* s.replace(/\s+/g, ' '): every maximal run of white space becomes one space.
RECURSIVE CollapseWhiteSpace(_)
CollapseWhiteSpace(s) ==
    IF s = << >> THEN s
    ELSE IF IsWhiteSpace(Head(s).c)
         THEN << Run(" ", 1) >> \o CollapseWhiteSpace(TrimStart(Tail(s)))
         ELSE << Head(s) >> \o CollapseWhiteSpace(Tail(s))

\* ------------------------------------------------------------------ values

Undefined == [t |-> "undefined", s |-> << >>, n |-> 0, b |-> FALSE]
Null      == [t |-> "null",      s |-> << >>, n |-> 0, b |-> FALSE]
Bool(b)   == [t |-> "boolean",   s |-> << >>, n |-> 0, b |-> b]
Num(n)    == [t |-> "number",    s |-> << >>, n |-> n, b |-> FALSE]
Str(s)    == [t |-> "string",    s |-> s,     n |-> 0, b |-> FALSE]
\* A Date object holding the time ms.
DateOf(ms) == [t |-> "date",     s |-> << >>, n |-> ms, b |-> TRUE]
\* The Date object "Invalid Date" (its time is NaN).
InvalidDate == [t |-> "date",    s |-> << >>, n |-> 0, b |-> FALSE]

\* typeof v
TypeOf(v) == IF v.t \in {"date", "null"} THEN "object" ELSE v.t

\* ToBoolean(v), as in !v and in a filter callback.
Truthy(v) ==
    CASE v.t = "undefined" -> FALSE
      [] v.t = "null"      -> FALSE
      [] v.t = "boolean"   -> v.b
      [] v.t = "number"    -> v.n # 0
      [] v.t = "string"    -> v.s # << >>
      [] OTHER             -> TRUE

Times == 0..MaxClock

\* Digits of Number.prototype.toString(36).
Base36Digits ==
    << "0", "1", "2", "3", "4", "5", "6", "7", "8", "9", "a", "b", "c", "d",
       "e", "f", "g", "h", "i", "j", "k", "l", "m", "n", "o", "p", "q", "r",
       "s", "t", "u", "v", "w", "x", "y", "z" >>

RECURSIVE Base36(_)
Base36(n) ==
    IF n < 36 THEN Rep(Base36Digits[n + 1], 1)
    ELSE Concat(Base36(n \div 36), Rep(Base36Digits[(n % 36) + 1], 1))

\* Date.prototype.toISOString of a valid date: "T" followed by the time.
\* (The calendar fields are not modelled; the text is one-to-one with the time.)
ToISOString(ms) == Concat(Rep("T", 1), Base36(ms))

\* new Date(v)
NewDate(v) ==
    CASE v.t = "string" ->
            IF \E ms \in Times : ToISOString(ms) = v.s
            THEN DateOf(CHOOSE ms \in Times : ToISOString(ms) = v.s)
            ELSE InvalidDate
      [] v.t = "number"  -> DateOf(v.n)
      [] v.t = "null"    -> DateOf(0)
      [] v.t = "boolean" -> DateOf(IF v.b THEN 1 ELSE 0)
      [] v.t = "date"    -> v
      [] OTHER           -> InvalidDate

\* ------------------------------------------------------------- the records

\* A Todo object.  In memory createdAt and updatedAt are always Date objects;
\* id, text and completed hold whatever value the record was loaded with.
Todo(id, text, completed, createdAt, updatedAt) ==
    [id |-> id, text |-> text, completed |-> completed,
     createdAt |-> createdAt, updatedAt |-> updatedAt]

\* An object without any of the five properties.
EmptyObject == Todo(Undefined, Undefined, Undefined, Undefined, Undefined)

\* An element of a parsed JSON array: an object, or a primitive value.
JsonObject(o) == [isObject |-> TRUE, prim |-> Undefined, o |-> o]
JsonPrim(v)   == [isObject |-> FALSE, prim |-> v, o |-> EmptyObject]

\* ----------------------------------------------------------- localStorage

TODOS_KEY  == "todolist-todos"
FILTER_KEY == "todolist-filter"

\* What localStorage.getItem returns: null (present = FALSE) or a text.  A text
\* is its raw form when it is plain (a filter name, "", garbage), and what
\* JSON.parse makes of it when it parses.
AbsentItem == [present |-> FALSE, raw |-> "", parses |-> FALSE,
               isArray |-> FALSE, items |-> << >>]
PlainText(raw) == [present |-> TRUE, raw |-> raw, parses |-> FALSE,
                   isArray |-> FALSE, items |-> << >>]
JsonArrayText(items) == [present |-> TRUE, raw |-> "json", parses |-> TRUE,
                         isArray |-> TRUE, items |-> items]
\* A text that parses to a JSON value that is not an array: "{}".
JsonObjectText == [present |-> TRUE, raw |-> "json", parses |-> TRUE,
                   isArray |-> FALSE, items |-> << >>]

\* ------------------------------------------------------------ StorageUtils

\* Whether Date.prototype.toISOString throws on one of the records.
HasInvalidDate(list) ==
    \E i \in DOMAIN list : ~list[i].createdAt.b \/ ~list[i].updatedAt.b

\* The object saveTodos would serialize if it wrote createdAt for both dates.
SerializeTodo_OneDate(todo) ==
    JsonObject([todo EXCEPT !.createdAt = Str(ToISOString(todo.createdAt.n)),
                            !.updatedAt = Str(ToISOString(todo.createdAt.n))])

\* The object saveTodos serializes for one record.
SerializeTodo(todo) ==
    JsonObject([todo EXCEPT !.createdAt = Str(ToISOString(todo.createdAt.n)),
                            !.updatedAt = Str(ToISOString(todo.updatedAt.n))])

\* saveTodos if it wrote a delta: the stored array with the last record of the
\* collection appended, instead of the full collection.
saveTodos_Incremental(ls, list, setItemFails) ==
    IF HasInvalidDate(list) \/ setItemFails
    THEN [threw |-> TRUE, ls |-> ls]
    ELSE [threw |-> FALSE,
          ls |-> [ls EXCEPT ![TODOS_KEY] =
                     JsonArrayText(
                        (IF ls[TODOS_KEY].isArray THEN ls[TODOS_KEY].items
                                                  ELSE << >>)
                        \o (IF list = << >> THEN << >>
                            ELSE << SerializeTodo(list[Len(list)]) >>))]]

\* StorageUtils.saveTodos: the storage after the call, and whether it threw.
\* setItemFails is whether localStorage.setItem throws (quota, disabled storage).
saveTodos(ls, list, setItemFails) ==
    IF HasInvalidDate(list) \/ setItemFails
    THEN [threw |-> TRUE, ls |-> ls]
    ELSE [threw |-> FALSE,
          ls |-> [ls EXCEPT ![TODOS_KEY] =
                     JsonArrayText([i \in DOMAIN list |-> SerializeTodo(list[i])])]]

\* The object loadTodos builds from one element of the parsed array.
ReviveTodo(e) ==
    [e.o EXCEPT !.createdAt = NewDate(e.o.createdAt),
                !.updatedAt = NewDate(e.o.updatedAt)]

\* StorageUtils.loadTodos
loadTodos(ls) ==
    LET item == ls[TODOS_KEY] IN
    IF ~item.present \/ item.raw = "" THEN << >>
    ELSE IF ~item.parses THEN << >>              \* JSON.parse throws
    ELSE IF ~item.isArray THEN << >>             \* .map is not a function
    ELSE IF \E i \in DOMAIN item.items :
               ~item.items[i].isObject
               /\ item.items[i].prim.t \in {"null", "undefined"}
         THEN << >>                              \* property read of null throws
    ELSE [i \in DOMAIN item.items |-> ReviveTodo(item.items[i])]

\* StorageUtils.saveFilter
saveFilter(ls, filter, setItemFails) ==
    IF setItemFails
    THEN [threw |-> TRUE, ls |-> ls]
    ELSE [threw |-> FALSE, ls |-> [ls EXCEPT ![FILTER_KEY] = PlainText(filter)]]

\* StorageUtils.loadFilter
loadFilter(ls) ==
    LET item == ls[FILTER_KEY] IN
    IF item.present /\ item.raw # "" THEN item.raw ELSE "all"

\* ------------------------------------------------- TodoList: private helpers

\* generateId: Date.now().toString(36) followed by the digits Math.random yields.
generateId(ms, random) == Str(Concat(Base36(ms), random))

\* validateTodoText without the length check.
validateTodoText_NoLimit(text) ==
    IF ~Truthy(text) \/ TypeOf(text) # "string" THEN "ValidationError"
    ELSE IF StrLength(Trim(text.s)) = 0 THEN "ValidationError"
    ELSE "none"

\* validateTodoText: the error it throws, or "none".
validateTodoText(text) ==
    IF ~Truthy(text) \/ TypeOf(text) # "string" THEN "ValidationError"
    ELSE IF StrLength(Trim(text.s)) = 0 THEN "ValidationError"
    ELSE IF StrLength(Trim(text.s)) > MaxTextLength THEN "ValidationError"
    ELSE "none"

\* sanitizeTodoText without the replace: the text is only trimmed.
sanitizeTodoText_TrimOnly(text) == Str(Trim(text.s))

\* sanitizeTodoText
sanitizeTodoText(text) == Str(CollapseWhiteSpace(Trim(text.s)))

\* validateId
validateId(id) ==
    IF ~Truthy(id) \/ TypeOf(id) # "string" THEN "ValidationError"
    ELSE IF StrLength(Trim(id.s)) = 0 THEN "ValidationError"
    ELSE "none"

\* validateCompletedStatus that accepts any value.
validateCompletedStatus_Lax(completed) == "none"

\* validateCompletedStatus
validateCompletedStatus(completed) ==
    IF TypeOf(completed) # "boolean" THEN "ValidationError" ELSE "none"

ValidFilters == {"all", "completed", "pending"}

\* validateFilter that accepts any value.
validateFilter_Lax(filter) == "none"

\* validateFilter
validateFilter(filter) ==
    IF filter \notin ValidFilters THEN "ValidationError" ELSE "none"

\* findIndex that yields the first position when no record has the id.
findIndex_OrFirst(list, id) ==
    IF \E i \in DOMAIN list : list[i].id = id
    THEN CHOOSE i \in DOMAIN list :
            list[i].id = id /\ \A j \in 1..(i - 1) : list[j].id # id
    ELSE IF list = << >> THEN 0 ELSE 1

\* Array.prototype.findIndex(todo => todo.id === id): 0 when there is none
\* (the program's -1), else the first matching position, from 1.
findIndex(list, id) ==
    IF \E i \in DOMAIN list : list[i].id = id
    THEN CHOOSE i \in DOMAIN list :
            list[i].id = id /\ \A j \in 1..(i - 1) : list[j].id # id
    ELSE 0

\* Array.prototype.filter(todo => todo.completed): the test the wrong way round.
WithoutCompleted_Inverted(list) ==
    SelectSeq(list, LAMBDA todo : Truthy(todo.completed))

\* Array.prototype.filter(todo => !todo.completed)
RECURSIVE WithoutCompleted(_)
WithoutCompleted(list) ==
    IF list = << >> THEN << >>
    ELSE IF ~Truthy(Head(list).completed)
         THEN << Head(list) >> \o WithoutCompleted(Tail(list))
         ELSE WithoutCompleted(Tail(list))

\* list.splice(i): the record at i and every record after it are removed.
Splice_ToEnd(list, i) == SubSeq(list, 1, i - 1)

\* list.splice(i, 1)
Splice(list, i) == SubSeq(list, 1, i - 1) \o SubSeq(list, i + 1, Len(list))

\* The catch of addTodo, updateTodo, toggleTodo, deleteTodo and setFilter: a
\* ValidationError is thrown again as it is, anything else as a new Error.
RethrowValidation(err) ==
    IF err = "ValidationError" THEN "ValidationError" ELSE "Error"

\* The catch of deleteCompletedTodos, clearAll and importTodos: whatever was
\* thrown is thrown again as a new Error.
RethrowAsError(err) == "Error"

\* isValidTodo
isValidTodo(e) ==
    /\ e.isObject
    /\ TypeOf(e.o.id) = "string"
    /\ TypeOf(e.o.text) = "string"
    /\ TypeOf(e.o.completed) = "boolean"
    /\ TypeOf(e.o.createdAt) = "string"
    /\ TypeOf(e.o.updatedAt) = "string"

\* The loop of importTodos without the test: every entry is kept.
ValidTodos_Unchecked(items) == [i \in DOMAIN items |-> ReviveTodo(items[i])]

\* The loop of importTodos: the valid entries, in order, with their dates built.
RECURSIVE ValidTodos(_)
ValidTodos(items) ==
    IF items = << >> THEN << >>
    ELSE IF isValidTodo(Head(items))
         THEN << ReviveTodo(Head(items)) >> \o ValidTodos(Tail(items))
         ELSE ValidTodos(Tail(items))

\* ------------------------------------------------------------------- state

VARIABLES
    todos,          \* TodoList.todos: the collection, a sequence of Todo objects
    currentFilter,  \* TodoList.currentFilter
    localStorage,   \* the two entries of the browser's localStorage
    now,            \* the time the clock showed when it was last read
    failures,       \* how many storage writes have thrown so far
    calls,          \* how many calls have been made so far
    last,           \* the latest call: operation, arguments, error, return value
    held            \* the array a getter returned last, as its caller holds it

vars ==
    << todos, currentFilter, localStorage, now, failures, calls, last, held >>

\* saveToStorage: the error it throws ("none" when it returns), the storage after.
saveToStorage(ls, list, setItemFails) ==
    LET r == saveTodos(ls, list, setItemFails) IN
    [err |-> IF r.threw THEN "StorageError" ELSE "none", ls |-> r.ls]

\* saveFilterToStorage
saveFilterToStorage(ls, filter, setItemFails) ==
    LET r == saveFilter(ls, filter, setItemFails) IN
    [err |-> IF r.threw THEN "StorageError" ELSE "none", ls |-> r.ls]

\* Whether localStorage.setItem may throw once more in this run.
MayFail(setItemFails) == setItemFails => failures < MaxFailures

Bump(n) == IF n < MaxFailures THEN n + 1 ELSE n

\* The times a clock that does not go backwards may show once it has shown t.
Later(t) == t..MaxClock

\* The digits Math.random().toString(36).substr(2) may yield.
RandomDigits == {Rep("x", 1)}

\* --- what a call leaves in last

\* Of the arguments only the id is kept (Undefined when the call takes none).
NoId == Undefined

\* Return values: a Todo, null, a boolean, a number, undefined (void), or
\* nothing because the call threw.
NoTodo == Todo(Undefined, Undefined, Undefined, InvalidDate, InvalidDate)
RetTodo(todo) == [k |-> "todo", todo |-> todo, n |-> 0, b |-> FALSE]
RetNull       == [k |-> "null", todo |-> NoTodo, n |-> 0, b |-> FALSE]
RetBool(b)    == [k |-> "boolean", todo |-> NoTodo, n |-> 0, b |-> b]
RetNum(n)     == [k |-> "number", todo |-> NoTodo, n |-> n, b |-> FALSE]
RetVoid       == [k |-> "undefined", todo |-> NoTodo, n |-> 0, b |-> FALSE]
RetThrew      == [k |-> "threw", todo |-> NoTodo, n |-> 0, b |-> FALSE]
RetArray      == [k |-> "array", todo |-> NoTodo, n |-> 0, b |-> FALSE]

\* An array a getter returned: the getter, whether the array is the very
\* array object that this.todos refers to, and its elements.
Held(by, isInternal, elements) ==
    [by |-> by, isInternal |-> isInternal, elements |-> elements]
NothingHeld == Held("none", FALSE, << >>)

\* wrote: "no" when the call issued no storage write, "yes" when its write
\* succeeded, "failed" when its write threw.
Call(op, id, err, ret, wrote) ==
    [op |-> op, id |-> id, err |-> err,
     ret |-> IF err = "none" THEN ret ELSE RetThrew, wrote |-> wrote]

Wrote(saved) == IF saved.err = "none" THEN "yes" ELSE "failed"

\* A call that throws before it changes anything.
Rejected(op, id, err) ==
    /\ last' = Call(op, id, err, RetThrew, "no")
    /\ calls' = calls + 1
    /\ UNCHANGED << todos, currentFilter, localStorage, now, failures >>

\* A call that returns without changing anything.
Returned(op, id, ret) ==
    /\ last' = Call(op, id, "none", ret, "no")
    /\ calls' = calls + 1
    /\ UNCHANGED << todos, currentFilter, localStorage, now, failures >>

\* Stored with the collection restored when saveToStorage throws.
Stored_RollsBack(op, id, list, ret, saved, catch, t) ==
    /\ todos' = IF saved.err = "none" THEN list ELSE todos
    /\ localStorage' = saved.ls
    /\ now' = t
    /\ failures' = IF saved.err = "none" THEN failures ELSE Bump(failures)
    /\ last' = Call(op, id, IF saved.err = "none" THEN "none" ELSE catch,
                    ret, Wrote(saved))
    /\ calls' = calls + 1
    /\ UNCHANGED currentFilter

\* A call that sets the collection to list and then calls saveToStorage; catch
\* is the call's catch clause.
Stored(op, id, list, ret, saved, catch, t) ==
    /\ todos' = list
    /\ localStorage' = saved.ls
    /\ now' = t
    /\ failures' = IF saved.err = "none" THEN failures ELSE Bump(failures)
    /\ last' = Call(op, id, IF saved.err = "none" THEN "none" ELSE catch,
                    ret, Wrote(saved))
    /\ calls' = calls + 1
    /\ UNCHANGED currentFilter

\* -------------------------------------------------------------- operations

\* TodoList.addTodo
addTodo(text) ==
    IF validateTodoText(text) # "none"
    THEN Rejected("addTodo", NoId,
                  RethrowValidation(validateTodoText(text)))
    ELSE \E tId \in Later(now) : \E random \in RandomDigits :
         \E tCreated \in Later(tId) : \E tUpdated \in Later(tCreated) :
         \E setItemFails \in BOOLEAN :
            LET newTodo == Todo(generateId(tId, random), sanitizeTodoText(text),
                                Bool(FALSE), DateOf(tCreated), DateOf(tUpdated))
                list == Append(todos, newTodo)
                saved == saveToStorage(localStorage, list, setItemFails)
            IN  /\ MayFail(setItemFails)
                /\ Stored("addTodo", NoId, list, RetTodo(newTodo),
                          saved, RethrowValidation(saved.err), tUpdated)

\* The object updateTodo would build if it stamped createdAt as well.
UpdatedTodo_Restamped(todo, text, completed, tUpdated) ==
    Todo(todo.id,
         IF text # Undefined THEN text ELSE todo.text,
         IF completed # Undefined THEN completed ELSE todo.completed,
         DateOf(tUpdated),
         DateOf(tUpdated))

\* The object updateTodo builds from the record and the validated updates.
UpdatedTodo(todo, text, completed, tUpdated) ==
    Todo(todo.id,
         IF text # Undefined THEN text ELSE todo.text,
         IF completed # Undefined THEN completed ELSE todo.completed,
         todo.createdAt,
         DateOf(tUpdated))

\* TodoList.updateTodo, from the lookup on (the id is valid).
UpdateFound(op, id, text, completed) ==
    LET todoIndex == findIndex(todos, id)
        todo == todos[todoIndex]
        textErr == IF text # Undefined THEN validateTodoText(text) ELSE "none"
        newText == IF text # Undefined /\ textErr = "none"
                   THEN sanitizeTodoText(text) ELSE text
        completedErr == IF completed # Undefined
                        THEN validateCompletedStatus(completed) ELSE "none"
    IN
    IF todoIndex = 0 THEN Returned(op, id, RetNull)
    ELSE IF textErr # "none" THEN Rejected(op, id, RethrowValidation(textErr))
    ELSE IF completedErr # "none"
         THEN Rejected(op, id, RethrowValidation(completedErr))
    ELSE \E tUpdated \in Later(now) : \E setItemFails \in BOOLEAN :
            LET updatedTodo == UpdatedTodo(todo, newText, completed, tUpdated)
                list == [todos EXCEPT ![todoIndex] = updatedTodo]
                saved == saveToStorage(localStorage, list, setItemFails)
            IN  /\ MayFail(setItemFails)
                /\ Stored(op, id, list, RetTodo(updatedTodo), saved,
                          RethrowValidation(saved.err), tUpdated)

\* TodoList.updateTodo
updateTodo(id, text, completed) ==
    IF validateId(id) # "none"
    THEN Rejected("updateTodo", id,
                  RethrowValidation(validateId(id)))
    ELSE UpdateFound("updateTodo", id, text, completed)

\* toggleTodo that sets the flag instead of negating it.
toggleTodo_Sets(id) ==
    IF validateId(id) # "none"
    THEN Rejected("toggleTodo", id, RethrowValidation(validateId(id)))
    ELSE IF findIndex(todos, id) = 0
    THEN Returned("toggleTodo", id, RetNull)
    ELSE UpdateFound("toggleTodo", id, Undefined, Bool(TRUE))

\* TodoList.toggleTodo: getTodoById, then updateTodo with the flag negated.
\* An error of updateTodo passes through the catch of toggleTodo.
toggleTodo(id) ==
    IF validateId(id) # "none"
    THEN Rejected("toggleTodo", id, RethrowValidation(validateId(id)))
    ELSE IF findIndex(todos, id) = 0
    THEN Returned("toggleTodo", id, RetNull)
    ELSE UpdateFound("toggleTodo", id, Undefined,
                     Bool(~Truthy(todos[findIndex(todos, id)].completed)))

\* TodoList.deleteTodo
deleteTodo(id) ==
    IF validateId(id) # "none"
    THEN Rejected("deleteTodo", id, RethrowValidation(validateId(id)))
    ELSE IF findIndex(todos, id) = 0
    THEN Returned("deleteTodo", id, RetBool(FALSE))
    ELSE \E setItemFails \in BOOLEAN :
            LET list == Splice(todos, findIndex(todos, id))
                saved == saveToStorage(localStorage, list, setItemFails)
            IN  /\ MayFail(setItemFails)
                /\ Stored("deleteTodo", id, list, RetBool(TRUE), saved,
                          RethrowValidation(saved.err), now)

\* TodoList.deleteCompletedTodos
deleteCompletedTodos ==
    \E setItemFails \in BOOLEAN :
        LET list == WithoutCompleted(todos)
            saved == saveToStorage(localStorage, list, setItemFails)
        IN  /\ MayFail(setItemFails)
            /\ Stored("deleteCompletedTodos", NoId, list,
                      RetNum(Len(todos) - Len(list)), saved,
                      RethrowAsError(saved.err), now)

\* TodoList.clearAll
clearAll ==
    \E setItemFails \in BOOLEAN :
        LET saved == saveToStorage(localStorage, << >>, setItemFails)
        IN  /\ MayFail(setItemFails)
            /\ Stored("clearAll", NoId, << >>, RetVoid, saved,
                      RethrowAsError(saved.err), now)

\* TodoList.setFilter
setFilter(filter) ==
    IF validateFilter(filter) # "none"
    THEN Rejected("setFilter", NoId,
                  RethrowValidation(validateFilter(filter)))
    ELSE \E setItemFails \in BOOLEAN :
            LET saved == saveFilterToStorage(localStorage, filter, setItemFails)
            IN  /\ MayFail(setItemFails)
                /\ currentFilter' = filter
                /\ localStorage' = saved.ls
                /\ failures' = IF saved.err = "none" THEN failures
                                                     ELSE Bump(failures)
                /\ last' = Call("setFilter", NoId,
                                IF saved.err = "none" THEN "none"
                                ELSE RethrowValidation(saved.err),
                                RetVoid, Wrote(saved))
                /\ calls' = calls + 1
                /\ UNCHANGED << todos, now >>

\* What JSON.stringify would make of a record if its dates were written as
\* numbers of milliseconds.
ExportTodo_Millis(todo) ==
    JsonObject([todo EXCEPT !.createdAt = Num(todo.createdAt.n),
                            !.updatedAt = Num(todo.updatedAt.n)])

\* What JSON.stringify makes of one record: Date.prototype.toJSON yields the
\* ISO string of a valid date and null for an invalid one.
ExportTodo(todo) ==
    JsonObject([todo EXCEPT
        !.createdAt = IF todo.createdAt.b
                      THEN Str(ToISOString(todo.createdAt.n)) ELSE Null,
        !.updatedAt = IF todo.updatedAt.b
                      THEN Str(ToISOString(todo.updatedAt.n)) ELSE Null])

\* TodoList.exportTodos: the text it returns.
exportTodos(list) == JsonArrayText([i \in DOMAIN list |-> ExportTodo(list[i])])

\* importTodos that takes a text it cannot read as an array for an empty one.
importTodos_Lenient(doc) ==
    \E setItemFails \in BOOLEAN :
        LET validTodos == IF ~doc.parses \/ ~doc.isArray
                          THEN << >> ELSE ValidTodos(doc.items)
            saved == saveToStorage(localStorage, validTodos, setItemFails)
        IN  /\ MayFail(setItemFails)
            /\ Stored("importTodos", NoId, validTodos,
                      RetNum(Len(validTodos)), saved,
                      RethrowAsError(saved.err), now)

\* TodoList.importTodos on the text doc.
importTodos(doc) ==
    IF ~doc.parses \/ ~doc.isArray
    THEN Rejected("importTodos", NoId, RethrowAsError("Error"))
    ELSE \E setItemFails \in BOOLEAN :
            LET validTodos == ValidTodos(doc.items)
                saved == saveToStorage(localStorage, validTodos, setItemFails)
            IN  /\ MayFail(setItemFails)
                /\ Stored("importTodos", NoId, validTodos,
                          RetNum(Len(validTodos)), saved,
                          RethrowAsError(saved.err), now)

\* new TodoList(): the constructor, which is loadFromStorage (a page reload).
\* StorageUtils.loadTodos and loadFilter catch what they throw, so the catch
\* of loadFromStorage is never entered.
loadFromStorage ==
    /\ todos' = loadTodos(localStorage)
    /\ currentFilter' = loadFilter(localStorage)
    /\ last' = Call("constructor", NoId, "none", RetVoid, "no")
    /\ calls' = calls + 1
    /\ UNCHANGED << localStorage, now, failures >>

\* clearAll if it removed the records entry only.
clearAllStorage_RecordsOnly(ls, throwsAt) ==
    CASE throwsAt = 1 -> [threw |-> TRUE, ls |-> ls]
      [] OTHER -> [threw |-> throwsAt # 0,
                   ls |-> [ls EXCEPT ![TODOS_KEY] = AbsentItem]]

\* StorageUtils.clearAll: removeItem of the two entries, the first of which to
\* throw being throwsAt (0: none throws).
clearAllStorage(ls, throwsAt) ==
    CASE throwsAt = 0 ->
            [threw |-> FALSE,
             ls |-> [ls EXCEPT ![TODOS_KEY] = AbsentItem,
                               ![FILTER_KEY] = AbsentItem]]
      [] throwsAt = 1 -> [threw |-> TRUE, ls |-> ls]
      [] OTHER -> [threw |-> TRUE, ls |-> [ls EXCEPT ![TODOS_KEY] = AbsentItem]]

\* TodoList.clearStorage
clearStorage ==
    \E throwsAt \in {0, 1, 2} :
        LET cleared == clearAllStorage(localStorage, throwsAt) IN
        /\ MayFail(throwsAt # 0)
        /\ localStorage' = cleared.ls
        /\ todos' = IF cleared.threw THEN todos ELSE << >>
        /\ currentFilter' = IF cleared.threw THEN currentFilter ELSE "all"
        /\ failures' = IF cleared.threw THEN Bump(failures) ELSE failures
        /\ last' = Call("clearStorage", NoId,
                        IF cleared.threw THEN "StorageError" ELSE "none",
                        RetVoid, IF cleared.threw THEN "failed" ELSE "yes")
        /\ calls' = calls + 1
        /\ UNCHANGED now

\* filterTodos with the test of 'pending' the wrong way round.
filterTodos_PendingInverted(list, filter) ==
    CASE filter = "completed" ->
            SelectSeq(list, LAMBDA todo : Truthy(todo.completed))
      [] filter = "pending" ->
            SelectSeq(list, LAMBDA todo : Truthy(todo.completed))
      [] OTHER -> list

\* TodoList.filterTodos
filterTodos(list, filter) ==
    CASE filter = "completed" ->
            SelectSeq(list, LAMBDA todo : Truthy(todo.completed))
      [] filter = "pending" ->
            SelectSeq(list, LAMBDA todo : ~Truthy(todo.completed))
      [] OTHER -> list

\* TodoList.getAllTodos: a copy of the collection.
getAllTodos == todos

\* TodoList.getFilteredTodos
getFilteredTodos == filterTodos(todos, currentFilter)

\* TodoList.getCurrentFilter
getCurrentFilter == currentFilter

\* getStats with pending counted like completed.
getStats_PendingCounted(list) ==
    LET total == Len(list)
        completed == Len(SelectSeq(list, LAMBDA todo : Truthy(todo.completed)))
        pending == Len(SelectSeq(list, LAMBDA todo : Truthy(todo.completed)))
    IN  [total |-> total, completed |-> completed, pending |-> pending]

\* TodoList.getStats on the collection list.
getStats(list) ==
    LET total == Len(list)
        completed == Len(SelectSeq(list, LAMBDA todo : Truthy(todo.completed)))
        pending == total - completed
    IN  [total |-> total, completed |-> completed, pending |-> pending]

\* ------------------------------------------------------------------ inputs

\* 202 characters, 200 after trimming: white space at both ends and a mixed
\* run of white space inside.
TextLongest ==
    Str(<< Run(" ", 1), Run("a", 100), Run(" ", 2), Run("TAB", 1),
           Run("b", MaxTextLength - 103), Run("TAB", 1) >>)
\* 201 letters.
TextTooLong == Str(Rep("a", MaxTextLength + 1))
\* Two letters with 200 spaces between: 202 characters after trimming, 3 after
\* collapsing.
TextWide == Str(<< Run("a", 1), Run(" ", MaxTextLength), Run("a", 1) >>)
TextEmpty == Str(EmptyStr)
TextBlank == Str(<< Run(" ", 2), Run("TAB", 1) >>)
\* "<TAB>c  d "
TextShort ==
    Str(<< Run("TAB", 1), Run("c", 1), Run(" ", 2), Run("d", 1), Run(" ", 1) >>)

\* The texts addTodo is called with.
AddTexts == {TextLongest, TextTooLong, TextWide, TextEmpty, TextBlank, Num(5)}

\* The updates updateTodo is called with: << updates.text, updates.completed >>,
\* Undefined for a property that is not supplied.
Updates ==
    {<< TextShort, Undefined >>, << TextShort, Bool(FALSE) >>,
     << TextBlank, Bool(TRUE) >>, << Undefined, Str(Rep("y", 1)) >>}

\* The ids the operations are called with: those of the collection, a blank
\* string, and an id that no record has.
UnknownId == Str(Rep("z", 1))
IdArgs ==
    {todos[i].id : i \in DOMAIN todos}
        \cup {Str(Rep(" ", 2)), UnknownId}

FilterArgs == {"pending", "bogus"}

IsoOf(ms) == Str(ToISOString(ms))

\* Entries of the texts given to importTodos.
EntryK == JsonObject(Todo(Str(Rep("k", 1)), Str(Rep("a", 1)), Bool(FALSE),
                          IsoOf(0), IsoOf(0)))
\* The same id again, completed.
EntryKDone == JsonObject(Todo(Str(Rep("k", 1)), Str(Rep("b", 1)), Bool(TRUE),
                              IsoOf(0), IsoOf(MaxClock)))
\* A text that was never sanitized, updated before it was created.
EntryRaw == JsonObject(Todo(Str(Rep("m", 1)),
                            Str(<< Run(" ", 1), Run("a", MaxTextLength + 1) >>),
                            Bool(FALSE), IsoOf(MaxClock), IsoOf(0)))
\* An empty text, updated at the latest time.
EntryEmptyText == JsonObject(Todo(Str(Rep("n", 1)), TextEmpty, Bool(TRUE),
                                  IsoOf(0), IsoOf(MaxClock)))
\* completed is a string: not a Todo.
EntryNotTodo == JsonObject(Todo(Str(Rep("p", 1)), Str(Rep("a", 1)),
                                Str(Rep("y", 1)), IsoOf(0), IsoOf(0)))
\* createdAt is a string that is no timestamp.
EntryBadDate == JsonObject(Todo(Str(Rep("q", 1)), Str(Rep("a", 1)), Bool(FALSE),
                                Str(Rep("?", 1)), IsoOf(0)))

\* The texts importTodos is called with.
ImportTexts ==
    {PlainText("not json"),
     JsonObjectText,
     JsonArrayText(<< EntryK, JsonPrim(Num(5)), EntryNotTodo, EntryKDone >>),
     JsonArrayText(<< EntryRaw, EntryEmptyText >>),
     JsonArrayText(<< EntryBadDate >>)}

\* What the records entry holds when the page is opened: nothing, or a list
\* the program wrote in an earlier session.
StoredTodosAtStart ==
    {AbsentItem,
     JsonArrayText(<< JsonObject(Todo(Str(Rep("s", 1)), Str(Rep("a", 1)),
                                      Bool(TRUE), IsoOf(0), IsoOf(0))),
                      JsonObject(Todo(Str(Rep("t", 1)), Str(Rep("b", 1)),
                                      Bool(FALSE), IsoOf(0), IsoOf(0))) >>)}

\* What the filter entry holds when the page is opened.
StoredFilterAtStart == {AbsentItem, PlainText("completed")}

\* ------------------------------------------------------------ specification

\* The state after new TodoList() on a page that was just opened.
Init ==
    /\ localStorage \in [{TODOS_KEY, FILTER_KEY} ->
                            StoredTodosAtStart \cup StoredFilterAtStart]
    /\ localStorage[TODOS_KEY] \in StoredTodosAtStart
    /\ localStorage[FILTER_KEY] \in StoredFilterAtStart
    /\ todos = loadTodos(localStorage)
    /\ currentFilter = loadFilter(localStorage)
    /\ now = 0
    /\ failures = 0
    /\ calls = 0
    /\ last = Call("constructor", NoId, "none", RetVoid, "no")
    /\ held = NothingHeld

\* One call of the page on its TodoList.
SomeCall ==
    \/ \E text \in AddTexts : addTodo(text)
    \/ \E id \in IdArgs : \E u \in Updates : updateTodo(id, u[1], u[2])
    \/ \E id \in IdArgs : toggleTodo(id)
    \/ \E id \in IdArgs : deleteTodo(id)
    \/ deleteCompletedTodos
    \/ clearAll
    \/ \E filter \in FilterArgs : setFilter(filter)
    \/ \E doc \in ImportTexts : importTodos(doc)
    \/ importTodos(exportTodos(todos))
    \/ clearStorage
    \/ loadFromStorage

\* No caller keeps an array that a getter returned.
Next == calls < MaxCalls /\ SomeCall /\ UNCHANGED held

Spec == Init /\ [][Next]_vars

\* What the filter entry holds when something else than the program wrote
\* it: an empty text, or a text that is no filter.
StoredFilterOfOthers == {PlainText(""), PlainText("bogus")}

\* What the records entry holds when something else than the program wrote
\* it: a text that is no JSON, the text of an object, an array with a null
\* in it, and an array of a number and an object whose completed is a string.
StoredTodosOfOthers ==
    {PlainText("not json"),
     JsonObjectText,
     JsonArrayText(<< JsonPrim(Null) >>),
     JsonArrayText(<< JsonPrim(Num(5)), EntryNotTodo >>)}

\* The state after new TodoList() on a page whose entries were written by
\* something else than the program.
InitStored ==
    /\ localStorage \in [{TODOS_KEY, FILTER_KEY} ->
                            StoredTodosAtStart \cup StoredTodosOfOthers
                                \cup StoredFilterOfOthers]
    /\ localStorage[TODOS_KEY] \in StoredTodosAtStart \cup StoredTodosOfOthers
    /\ localStorage[FILTER_KEY] \in StoredFilterOfOthers
    /\ todos = loadTodos(localStorage)
    /\ currentFilter = loadFilter(localStorage)
    /\ now = 0
    /\ failures = 0
    /\ calls = 0
    /\ last = Call("constructor", NoId, "none", RetVoid, "no")
    /\ held = NothingHeld

SpecStored == InitStored /\ [][Next]_vars

\* --- the arrays the getters return

\* A call of getAllTodos: the caller gets a new array, [...this.todos].
CallGetAllTodos ==
    /\ held' = Held("getAllTodos", FALSE, getAllTodos)
    /\ last' = Call("getAllTodos", NoId, "none", RetArray, "no")
    /\ calls' = calls + 1
    /\ UNCHANGED << todos, currentFilter, localStorage, now, failures >>

\* Whether filterTodos returns its argument, the array this.todos refers to,
\* rather than the new array Array.prototype.filter builds.
ReturnsInternalArray(filter) == filter \notin {"completed", "pending"}

\* A call of getFilteredTodos: the caller gets what filterTodos returns.
CallGetFilteredTodos ==
    /\ held' = Held("getFilteredTodos", ReturnsInternalArray(currentFilter),
                    getFilteredTodos)
    /\ last' = Call("getFilteredTodos", NoId, "none", RetArray, "no")
    /\ calls' = calls + 1
    /\ UNCHANGED << todos, currentFilter, localStorage, now, failures >>

\* The operations that change the array this.todos refers to in place (push,
\* index assignment, splice), and those that make this.todos refer to a new
\* array.
InPlaceOps == {"addTodo", "updateTodo", "toggleTodo", "deleteTodo"}
RebindingOps == {"deleteCompletedTodos", "clearAll", "importTodos", "constructor"}

\* What a call of SomeCall does to the array the caller holds: when it is the
\* internal array, a change in place shows in it, and an assignment to
\* this.todos leaves it behind with the elements it had.
HeldAfterCall ==
    held' =
        IF ~held.isInternal THEN held
        ELSE IF last'.op \in InPlaceOps
             THEN [held EXCEPT !.elements = todos']
        ELSE IF last'.op \in RebindingOps
                \/ (last'.op = "clearStorage" /\ last'.err = "none")
             THEN [held EXCEPT !.isInternal = FALSE]
        ELSE held

\* One call of a page that keeps the array a getter returned.
NextHeld ==
    /\ calls < MaxCalls
    /\ \/ SomeCall /\ HeldAfterCall
       \/ CallGetAllTodos
       \/ CallGetFilteredTodos

SpecHeld == Init /\ [][NextHeld]_vars

\* ------------------------------------------------- vocabulary of the claims

\* s neither starts nor ends with white space.
NoEdgeWhiteSpace(s) ==
    s = << >> \/ (~IsWhiteSpace(s[1].c) /\ ~IsWhiteSpace(s[Len(s)].c))

\* Every run of white space in s is one space.
SingleSpaced(s) ==
    \A i \in DOMAIN s :
        IsWhiteSpace(s[i].c) =>
            /\ s[i] = Run(" ", 1)
            /\ i < Len(s) => ~IsWhiteSpace(s[i + 1].c)

\* The position of the first white space of s, Len(s) + 1 when it has none.
FirstWhiteSpace(s) ==
    IF \E i \in DOMAIN s : IsWhiteSpace(s[i].c)
    THEN CHOOSE i \in DOMAIN s :
            IsWhiteSpace(s[i].c) /\ \A j \in 1..(i - 1) : ~IsWhiteSpace(s[j].c)
    ELSE Len(s) + 1

\* The words of s: its maximal pieces without white space, in order.
RECURSIVE WordsOf(_)
WordsOf(s) ==
    IF s = << >> THEN << >>
    ELSE IF IsWhiteSpace(Head(s).c) THEN WordsOf(Tail(s))
    ELSE << SubSeq(s, 1, FirstWhiteSpace(s) - 1) >>
         \o WordsOf(SubSeq(s, FirstWhiteSpace(s), Len(s)))

\* The number of characters of s between its first and its last character
\* that is not white space.
RECURSIVE LengthOfWords(_)
LengthOfWords(w) ==
    IF w = << >> THEN 0 ELSE StrLength(Head(w)) + LengthOfWords(Tail(w))
RECURSIVE InnerWhiteSpace(_, _)
InnerWhiteSpace(s, seen) ==
    IF s = << >> THEN 0
    ELSE IF IsWhiteSpace(Head(s).c)
         THEN (IF seen /\ WordsOf(Tail(s)) # << >> THEN Head(s).n ELSE 0)
              + InnerWhiteSpace(Tail(s), seen)
         ELSE InnerWhiteSpace(Tail(s), TRUE)
TrimmedLength(s) == LengthOfWords(WordsOf(s)) + InnerWhiteSpace(s, FALSE)

\* A text addTodo is specified to accept.
AcceptableText(text) ==
    /\ text.t = "string"
    /\ TrimmedLength(text.s) >= 1
    /\ TrimmedLength(text.s) <= MaxTextLength

\* A string that is empty, blank, or too long after trimming.
UnacceptableText(text) ==
    /\ text.t = "string"
    /\ TrimmedLength(text.s) = 0 \/ TrimmedLength(text.s) > MaxTextLength

\* clean is text with its edges trimmed and its white space runs collapsed.
IsSanitized(clean, text) ==
    /\ clean.t = "string"
    /\ NoEdgeWhiteSpace(clean.s)
    /\ SingleSpaced(clean.s)
    /\ WordsOf(clean.s) = WordsOf(text.s)

\* list is base with one record appended.
Appended(list, base) ==
    /\ Len(list) = Len(base) + 1
    /\ SubSeq(list, 1, Len(base)) = base

NewestTodo == todos[Len(todos)]

\* ------------------------------------------------------------------ claims

\* What C1 says of the collection after addTodo(text): the previous collection
\* with one record appended, whose text is the sanitized input and which is
\* not completed.
AddedTo(text) ==
    /\ Appended(todos', todos)
    /\ IsSanitized(todos'[Len(todos')].text, text)
    /\ todos'[Len(todos')].completed = Bool(FALSE)

\* C1 as stated: for every acceptable text addTodo succeeds, the collection is
\* the previous one with one record appended, that record is the one returned,
\* its text is the input trimmed and collapsed and it is not completed.
C1_AddAlwaysSucceeds ==
    [][last'.op = "addTodo" =>
        \A text \in AddTexts :
            (AcceptableText(text) /\ addTodo(text)) =>
                /\ last'.err = "none"
                /\ AddedTo(text)
                /\ last'.ret = RetTodo(todos'[Len(todos')])]_vars

\* C1 amended: for every acceptable text addTodo appends one record with the
\* sanitized text, not completed, to the previous collection; it returns that
\* record unless the storage write fails, and then it throws.
C1_AddAppends ==
    [][last'.op = "addTodo" =>
        \A text \in AddTexts :
            (AcceptableText(text) /\ addTodo(text)) =>
                /\ AddedTo(text)
                /\ last'.wrote # "no"
                /\ last'.wrote = "yes" =>
                      /\ last'.err = "none"
                      /\ last'.ret = RetTodo(todos'[Len(todos')])
                /\ last'.wrote = "failed" => last'.err # "none"]_vars

\* C1 witness: addTodo returned a record whose text had white space to trim and
\* to collapse, appended behind two earlier records.
C1_Witness ==
    /\ last.op = "addTodo"
    /\ last.err = "none"
    /\ Len(todos) = 3
    /\ last.ret.todo = NewestTodo
    /\ NewestTodo.text =
          Str(<< Run("a", 100), Run(" ", 1), Run("b", MaxTextLength - 103) >>)

\* C2: no two records of the collection have the same id.
C2_UniqueIds ==
    \A i, j \in DOMAIN todos : i # j => todos[i].id # todos[j].id

\* C3: the text of every record is a string that is not empty, has no white
\* space at its edges and is at most 200 characters long.
C3_TextsWellFormed ==
    \A i \in DOMAIN todos :
        /\ todos[i].text.t = "string"
        /\ todos[i].text.s # EmptyStr
        /\ NoEdgeWhiteSpace(todos[i].text.s)
        /\ StrLength(todos[i].text.s) <= MaxTextLength

\* C4: every record was updated at or after the time it was created (a
\* comparison with the time of an invalid date is false).
C4_UpdatedNotBeforeCreated ==
    \A i \in DOMAIN todos :
        /\ todos[i].createdAt.b
        /\ todos[i].updatedAt.b
        /\ todos[i].updatedAt.n >= todos[i].createdAt.n

\* C5: addTodo with a text that is empty, blank or longer than 200 characters
\* after trimming throws ValidationError, writes nothing, and leaves the
\* collection, the filter and the storage as they were.
C5_AddRejects ==
    [][last'.op = "addTodo" =>
        \A text \in AddTexts :
            (UnacceptableText(text) /\ addTodo(text)) =>
                /\ last'.err = "ValidationError"
                /\ last'.wrote = "no"
                /\ UNCHANGED << todos, currentFilter, localStorage >>]_vars

\* C5 witness: addTodo was rejected while the collection held records.
C5_Witness ==
    /\ last.op = "addTodo"
    /\ last.err = "ValidationError"
    /\ Len(todos) = 2

\* C6: as long as no storage write has failed, loading the two entries yields
\* the collection and the filter held in memory.
C6_StorageMirrorsMemory ==
    failures = 0 =>
        /\ loadTodos(localStorage) = todos
        /\ loadFilter(localStorage) = currentFilter

\* C6 witness: after two successful writes, the second an update that moved
\* updatedAt past createdAt, with a filter other than the default.
C6_Witness ==
    /\ failures = 0
    /\ calls = 2
    /\ last.op = "updateTodo"
    /\ last.wrote = "yes"
    /\ last.ret.todo.updatedAt # last.ret.todo.createdAt
    /\ currentFilter = "pending"
    /\ localStorage[TODOS_KEY].items # << >>

\* The operations C7 and C8 name.
WritingOps ==
    {"addTodo", "updateTodo", "deleteTodo", "deleteCompletedTodos", "clearAll",
     "importTodos", "setFilter"}

\* The first record of the collection with this id.
FirstWithId(i, id) ==
    /\ i \in DOMAIN todos
    /\ todos[i].id = id
    /\ \A j \in 1..(i - 1) : todos[j].id # id

\* How many of the records are not completed.
PendingCount(list) == Cardinality({i \in DOMAIN list : ~Truthy(list[i].completed)})

\* C7: when the storage write of one of these operations fails, the operation
\* throws, the storage is as it was, and memory holds the change all the same.
C7_NoRollback ==
    [][(last'.wrote = "failed" /\ last'.op \in WritingOps) =>
        /\ last'.err # "none"
        /\ localStorage' = localStorage
        /\ last'.op = "addTodo" => Appended(todos', todos)
        /\ last'.op = "updateTodo" =>
              \A id \in {last'.id} : \A u \in Updates :
                  updateTodo(id, u[1], u[2]) =>
                      \E i \in DOMAIN todos :
                          /\ FirstWithId(i, id)
                          /\ Len(todos') = Len(todos)
                          /\ u[1] # Undefined =>
                                IsSanitized(todos'[i].text, u[1])
                          /\ u[2] # Undefined => todos'[i].completed = u[2]
                          /\ todos'[i].updatedAt = DateOf(now')
        /\ last'.op = "deleteTodo" => Len(todos') = Len(todos) - 1
        /\ last'.op = "deleteCompletedTodos" =>
              /\ Len(todos') = PendingCount(todos)
              /\ PendingCount(todos') = Len(todos')
        /\ last'.op = "clearAll" => todos' = << >>
        /\ last'.op = "importTodos" =>
              \A doc \in ImportTexts :
                  importTodos(doc) =>
                      Len(todos') = Cardinality({i \in DOMAIN doc.items :
                                                    isValidTodo(doc.items[i])})
        /\ last'.op = "setFilter" =>
              \A filter \in FilterArgs :
                  setFilter(filter) => currentFilter' = filter]_vars

\* C7 witness: addTodo threw on its storage write, and the collection in memory
\* is one record longer than the one the storage holds.
C7_Witness ==
    /\ last.op = "addTodo"
    /\ last.wrote = "failed"
    /\ last.err # "none"
    /\ Len(todos) = Len(loadTodos(localStorage)) + 1

\* C8: when the storage write of one of these operations fails, the caller
\* gets a StorageError.
C8_StorageErrorReachesCaller ==
    (last.wrote = "failed" /\ last.op \in WritingOps) => last.err = "StorageError"

\* An id that is empty or blank.
BlankId(id) == id.t = "string" /\ TrimmedLength(id.s) = 0

\* Updates with a text that is supplied and not acceptable, or a completed
\* that is supplied and not a boolean.
BadUpdates(u) ==
    \/ u[1] # Undefined /\ ~AcceptableText(u[1])
    \/ u[2] # Undefined /\ u[2].t # "boolean"

HasId(id) == \E i \in DOMAIN todos : todos[i].id = id

\* C9 as stated: updateTodo throws ValidationError for a blank id and for bad
\* updates, whether or not a record has the id, and changes nothing.
C9_UpdateRejectsForEveryId ==
    [][last'.op = "updateTodo" =>
        \A id \in {last'.id} : \A u \in Updates :
            ((BlankId(id) \/ BadUpdates(u)) /\ updateTodo(id, u[1], u[2])) =>
                /\ last'.err = "ValidationError"
                /\ UNCHANGED << todos, localStorage >>]_vars

\* C9 amended: updateTodo throws ValidationError for a blank id, and for bad
\* updates when a record has the id; it changes nothing then.
C9_UpdateRejects ==
    [][last'.op = "updateTodo" =>
        \A id \in {last'.id} : \A u \in Updates :
            (/\ BlankId(id) \/ (HasId(id) /\ BadUpdates(u))
             /\ updateTodo(id, u[1], u[2])) =>
                /\ last'.err = "ValidationError"
                /\ last'.wrote = "no"
                /\ UNCHANGED << todos, localStorage >>]_vars

\* C9 witness: updateTodo threw ValidationError for the id of a record.
C9_Witness ==
    /\ last.op = "updateTodo"
    /\ last.err = "ValidationError"
    /\ HasId(last.id)

\* The record at i keeps its id and createdAt, the text and completed that
\* were not supplied, and every other record is as it was.
OnlyUpdated(i, text, completed) ==
    /\ Len(todos') = Len(todos)
    /\ \A j \in DOMAIN todos : j # i => todos'[j] = todos[j]
    /\ todos'[i].id = todos[i].id
    /\ todos'[i].createdAt = todos[i].createdAt
    /\ text = Undefined => todos'[i].text = todos[i].text
    /\ completed = Undefined => todos'[i].completed = todos[i].completed

\* C10: an updateTodo or toggleTodo that returns a record changed nothing but
\* the supplied text and completed and the updatedAt of the matched record.
C10_UpdateFrame ==
    [][/\ (last'.op = "updateTodo" /\ last'.ret.k = "todo") =>
            \A id \in {last'.id} : \A u \in Updates :
                updateTodo(id, u[1], u[2]) =>
                    \E i \in DOMAIN todos :
                        FirstWithId(i, id) /\ OnlyUpdated(i, u[1], u[2])
       /\ (last'.op = "toggleTodo" /\ last'.ret.k = "todo") =>
            \A id \in {last'.id} :
                toggleTodo(id) =>
                    \E i \in DOMAIN todos :
                        FirstWithId(i, id) /\ OnlyUpdated(i, Undefined, Bool(TRUE))
      ]_vars

\* C10 witness: updateTodo returned the second of two records with a new text,
\* stamped later than it was created.
C10_Witness ==
    /\ last.op = "updateTodo"
    /\ last.ret.k = "todo"
    /\ Len(todos) = 2
    /\ todos[2] = last.ret.todo
    /\ todos[2].text = Str(<< Run("c", 1), Run(" ", 1), Run("d", 1) >>)
    /\ todos[2].updatedAt # todos[2].createdAt

\* The call returned null and threw nothing, wrote nothing, and the
\* collection, the filter and the storage are as they were.
ReturnedNullUntouched ==
    /\ last'.err = "none"
    /\ last'.ret = RetNull
    /\ last'.wrote = "no"
    /\ UNCHANGED << todos, currentFilter, localStorage >>

\* C11 as stated: for every id that no record has, updateTodo and toggleTodo
\* return null, throw nothing and change nothing.
C11_NullForEveryUnmatchedId ==
    [][last'.op \in {"updateTodo", "toggleTodo"} =>
        \A id \in {last'.id} :
            /\ \A u \in Updates :
                  (~HasId(id) /\ updateTodo(id, u[1], u[2])) =>
                      ReturnedNullUntouched
            /\ (~HasId(id) /\ toggleTodo(id)) => ReturnedNullUntouched]_vars

\* C11 amended: for every id that is not blank and that no record has,
\* updateTodo and toggleTodo return null, throw nothing, write nothing, and
\* leave the collection, the filter and the storage as they were.
C11_NullForUnknownId ==
    [][last'.op \in {"updateTodo", "toggleTodo"} =>
        \A id \in {last'.id} :
            /\ \A u \in Updates :
                  (~BlankId(id) /\ ~HasId(id) /\ updateTodo(id, u[1], u[2])) =>
                      ReturnedNullUntouched
            /\ (~BlankId(id) /\ ~HasId(id) /\ toggleTodo(id)) =>
                  ReturnedNullUntouched]_vars

\* C11 witness: toggleTodo of an unknown id returned null on a collection of
\* two records.
C11_Witness ==
    /\ last.op = "toggleTodo"
    /\ last.id = UnknownId
    /\ last.ret = RetNull
    /\ Len(todos) = 2

\* The record at i is what updateTodo(id, {completed: not completed}) makes of
\* it: the flag, a boolean, is negated, updatedAt is the time of the call,
\* and nothing else is changed.
Toggled(i) ==
    /\ todos[i].completed.t = "boolean"
    /\ todos'[i].completed = Bool(~todos[i].completed.b)
    /\ OnlyUpdated(i, Undefined, todos'[i].completed)
    /\ todos'[i].updatedAt = DateOf(now')
    /\ now' >= now

\* The record at i was toggled by the call before this one, which returned it.
ToggledBefore(i) ==
    /\ last.op = "toggleTodo"
    /\ last.ret.k = "todo"
    /\ last.id = todos[i].id

\* C12 as stated: toggleTodo of the id of a record negates the flag of the
\* record as updateTodo would, and its updatedAt is not before the prior
\* updatedAt; a second toggle right after yields the flag the first one
\* found.
C12_ToggleNeverGoesBack ==
    [][last'.op = "toggleTodo" =>
        \A id \in {last'.id} :
            (~BlankId(id) /\ HasId(id) /\ toggleTodo(id)) =>
                \E i \in DOMAIN todos :
                    /\ FirstWithId(i, id)
                    /\ Toggled(i)
                    /\ todos[i].updatedAt.b
                    /\ todos'[i].updatedAt.n >= todos[i].updatedAt.n
                    /\ ToggledBefore(i) =>
                          todos'[i].completed = Bool(~last.ret.todo.completed.b)
      ]_vars

\* C12 amended: toggleTodo of the id of a record negates the flag of the
\* record as updateTodo would, and its updatedAt becomes the time of the call,
\* which is not before the prior updatedAt unless that one is later than the
\* clock; a second toggle right after yields the flag the first one found.
C12_ToggleNegates ==
    [][last'.op = "toggleTodo" =>
        \A id \in {last'.id} :
            (~BlankId(id) /\ HasId(id) /\ toggleTodo(id)) =>
                \E i \in DOMAIN todos :
                    /\ FirstWithId(i, id)
                    /\ Toggled(i)
                    /\ (todos[i].updatedAt.b /\ todos[i].updatedAt.n <= now) =>
                          todos'[i].updatedAt.n >= todos[i].updatedAt.n
                    /\ ToggledBefore(i) =>
                          todos'[i].completed = Bool(~last.ret.todo.completed.b)
      ]_vars

\* C12 witness: the first stored record, completed, was toggled twice, the
\* second time at the latest time, and is completed again.
C12_Witness ==
    /\ calls = 2
    /\ last.op = "toggleTodo"
    /\ last.ret.k = "todo"
    /\ Len(todos) = 2
    /\ todos[1] = last.ret.todo
    /\ todos[1].id = Str(Rep("s", 1))
    /\ todos[1].completed = Bool(TRUE)
    /\ todos[1].updatedAt = DateOf(MaxClock)

\* The collection is what it was without the record at i.
RemovedAt(i) ==
    /\ Len(todos') = Len(todos) - 1
    /\ \A j \in 1..(i - 1) : todos'[j] = todos[j]
    /\ \A j \in i..Len(todos') : todos'[j] = todos[j + 1]

\* C13 as stated: deleteTodo of an id a record has returns true and removes
\* one record with that id, the others keeping content and order; deleteTodo
\* of any other id returns false and leaves collection and storage alone.
C13_DeleteAlwaysReturns ==
    [][last'.op = "deleteTodo" =>
        \A id \in {last'.id} :
            deleteTodo(id) =>
                IF HasId(id)
                THEN /\ last'.ret = RetBool(TRUE)
                     /\ \E i \in DOMAIN todos : todos[i].id = id /\ RemovedAt(i)
                ELSE /\ last'.ret = RetBool(FALSE)
                     /\ UNCHANGED << todos, localStorage >>]_vars

\* C13 amended: deleteTodo of an id that is not blank and that a record has
\* removes the first record with that id, the others keeping content and
\* order, and returns true when its write succeeds and throws when it fails;
\* deleteTodo of an id that is not blank and that no record has returns false,
\* writes nothing and leaves collection and storage alone.
C13_Delete ==
    [][last'.op = "deleteTodo" =>
        \A id \in {last'.id} :
            (~BlankId(id) /\ deleteTodo(id)) =>
                IF HasId(id)
                THEN /\ \E i \in DOMAIN todos : FirstWithId(i, id) /\ RemovedAt(i)
                     /\ last'.wrote # "no"
                     /\ last'.wrote = "yes" => last'.ret = RetBool(TRUE)
                     /\ last'.wrote = "failed" => last'.err # "none"
                ELSE /\ last'.ret = RetBool(FALSE)
                     /\ last'.wrote = "no"
                     /\ UNCHANGED << todos, localStorage >>]_vars

\* C13 witness: deleteTodo returned true for the first of the two stored
\* records and the second one is what is left.
C13_Witness ==
    /\ last.op = "deleteTodo"
    /\ last.id = Str(Rep("s", 1))
    /\ last.ret = RetBool(TRUE)
    /\ Len(todos) = 1
    /\ todos[1].id = Str(Rep("t", 1))

\* The records of the list with this completed flag, in their order.
WithFlag(list, flag) == SelectSeq(list, LAMBDA todo : todo.completed = Bool(flag))

\* C14 as stated: deleteCompletedTodos leaves the records that are not
\* completed, in order, returns how many were completed, writes the collection
\* even when that is none, and returns 0 when it is called again at once.
C14_DeleteCompletedAlwaysReturns ==
    [][(last'.op = "deleteCompletedTodos" /\ deleteCompletedTodos) =>
        /\ todos' = WithFlag(todos, FALSE)
        /\ last'.ret = RetNum(Len(WithFlag(todos, TRUE)))
        /\ last'.wrote = "yes"
        /\ last.op = "deleteCompletedTodos" => last'.ret = RetNum(0)]_vars

\* C14 amended: deleteCompletedTodos leaves the records that are not
\* completed, in order, and issues a write of the collection even when none
\* was completed; when the write succeeds it returns how many were completed,
\* which is 0 when it is called again at once, and when the write fails it
\* throws.
C14_DeleteCompleted ==
    [][(last'.op = "deleteCompletedTodos" /\ deleteCompletedTodos) =>
        /\ todos' = WithFlag(todos, FALSE)
        /\ last'.wrote # "no"
        /\ last'.wrote = "yes" =>
              /\ last'.ret = RetNum(Len(WithFlag(todos, TRUE)))
              /\ loadTodos(localStorage') = todos'
              /\ last.op = "deleteCompletedTodos" => last'.ret = RetNum(0)
        /\ last'.wrote = "failed" =>
              /\ last'.err # "none"
              /\ localStorage' = localStorage]_vars

\* C14 witness: deleteCompletedTodos returned 1 and left the stored record
\* that was not completed.
C14_Witness ==
    /\ last.op = "deleteCompletedTodos"
    /\ last.ret = RetNum(1)
    /\ Len(todos) = 1
    /\ todos[1].id = Str(Rep("t", 1))

\* A second deleteCompletedTodos right after the first wrote and returned 0.
C14_WitnessAgain ==
    /\ calls = 2
    /\ last.op = "deleteCompletedTodos"
    /\ last.ret = RetNum(0)
    /\ last.wrote = "yes"
    /\ todos = << >>
    /\ localStorage[TODOS_KEY] = JsonArrayText(<< >>)

C16_Filtered ==
    /\ currentFilter = "completed" => getFilteredTodos = WithFlag(todos, TRUE)
    /\ currentFilter = "pending" => getFilteredTodos = WithFlag(todos, FALSE)
    /\ currentFilter = "all" => getFilteredTodos = getAllTodos
    /\ filterTodos(todos, "completed") = WithFlag(todos, TRUE)
    /\ filterTodos(todos, "pending") = WithFlag(todos, FALSE)
    /\ filterTodos(todos, "all") = getAllTodos
    /\ Len(filterTodos(todos, "completed")) + Len(filterTodos(todos, "pending"))
          = Len(todos)
    /\ \A i \in DOMAIN todos :
          (todos[i].completed = Bool(TRUE)) # (todos[i].completed = Bool(FALSE))

\* C16 witness: under the filter pending, set by setFilter, getFilteredTodos
\* returns the second of two records and leaves out the first.
C16_Witness ==
    /\ last.op = "setFilter"
    /\ currentFilter = "pending"
    /\ Len(todos) = 2
    /\ getFilteredTodos = << todos[2] >>

\* C17: the current filter is one of all, completed and pending in every
\* state, and right after construction it is all when the stored filter entry
\* is absent or is none of the three.
C17_FilterValid ==
    /\ currentFilter \in ValidFilters
    /\ (/\ calls = 0
        /\ \/ ~localStorage[FILTER_KEY].present
           \/ localStorage[FILTER_KEY].raw \notin ValidFilters)
          => currentFilter = "all"

\* C18: setFilter of a value that is none of all, completed and pending throws
\* ValidationError and leaves the current filter, the collection and the
\* storage as they were; setFilter of one of the three makes getCurrentFilter
\* return it and leaves the collection as it was.
C18_SetFilter ==
    [][last'.op = "setFilter" =>
        \A filter \in FilterArgs :
            setFilter(filter) =>
                IF filter \in {"all", "completed", "pending"}
                THEN /\ getCurrentFilter' = filter
                     /\ todos' = todos
                ELSE /\ last'.err = "ValidationError"
                     /\ last'.wrote = "no"
                     /\ UNCHANGED << currentFilter, todos, localStorage >>]_vars

\* C18 witness: setFilter threw ValidationError while the filter, loaded from
\* the storage, was completed and the collection held two records.
C18_Witness ==
    /\ last.op = "setFilter"
    /\ last.err = "ValidationError"
    /\ getCurrentFilter = "completed"
    /\ localStorage[FILTER_KEY] = PlainText("completed")
    /\ Len(todos) = 2

\* setFilter made pending the current filter and wrote it.
C18_WitnessSet ==
    /\ last.op = "setFilter"
    /\ last.wrote = "yes"
    /\ getCurrentFilter = "pending"
    /\ localStorage[FILTER_KEY] = PlainText("pending")

\* Every record of the collection has two valid dates, as every record has
\* that addTodo, updateTodo or toggleTodo made.
AllDated == \A i \in DOMAIN todos : todos[i].createdAt.b /\ todos[i].updatedAt.b

\* The collection holds the same records in the same order as before, each
\* with the id, text and completed flag it had.
SameRecords ==
    /\ Len(todos') = Len(todos)
    /\ \A i \in DOMAIN todos :
          /\ todos'[i].id = todos[i].id
          /\ todos'[i].text = todos[i].text
          /\ todos'[i].completed = todos[i].completed

\* C19 as stated: importTodos(exportTodos()) returns the length of the
\* collection and leaves the same records in the same order.
C19_RoundTripAlwaysReturns ==
    [][(last'.op = "importTodos" /\ AllDated
        /\ importTodos(exportTodos(todos))) =>
            /\ last'.ret = RetNum(Len(todos))
            /\ SameRecords]_vars

\* C19 amended: importTodos(exportTodos()) leaves the same records in the
\* same order, each with its id, text, completed flag and dates; it returns
\* the length of the collection when its write succeeds and throws when it
\* fails.
C19_RoundTrip ==
    [][(last'.op = "importTodos" /\ AllDated
        /\ importTodos(exportTodos(todos))) =>
            /\ SameRecords
            /\ todos' = todos
            /\ last'.wrote # "no"
            /\ last'.wrote = "yes" => last'.ret = RetNum(Len(todos))
            /\ last'.wrote = "failed" => last'.err = "Error"]_vars

\* C19 witness: importTodos(exportTodos()) returned 3 for the two stored
\* records and the one addTodo had appended.
C19_Witness ==
    /\ calls = 2
    /\ last.op = "importTodos"
    /\ last.ret = RetNum(3)
    /\ Len(todos) = 3
    /\ NewestTodo.text = Str(<< Run("a", 100), Run(" ", 1),
                               Run("b", MaxTextLength - 103) >>)
    /\ NewestTodo.updatedAt = DateOf(MaxClock)

\* The entry is an object whose id and text are strings, whose completed is a
\* boolean, and whose createdAt and updatedAt are strings.
RecordShaped(e) ==
    /\ e.isObject
    /\ e.o.id.t = "string" /\ e.o.text.t = "string"
    /\ e.o.completed.t = "boolean"
    /\ e.o.createdAt.t = "string" /\ e.o.updatedAt.t = "string"

\* The collection holds the record-shaped entries of the array and nothing
\* else, in the order of the array, with their id, text and completed flag.
HoldsEntriesOf(list, items) ==
    LET kept == SelectSeq(items, RecordShaped) IN
    /\ Len(list) = Len(kept)
    /\ \A i \in DOMAIN kept :
          /\ list[i].id = kept[i].o.id
          /\ list[i].text = kept[i].o.text
          /\ list[i].completed = kept[i].o.completed

\* C20 as stated: importTodos of an array makes the collection the
\* record-shaped entries of the array, writes it, and returns their number.
C20_ImportAlwaysReturns ==
    [][last'.op = "importTodos" =>
        \A doc \in ImportTexts :
            (doc.parses /\ doc.isArray /\ importTodos(doc)) =>
                /\ HoldsEntriesOf(todos', doc.items)
                /\ last'.wrote = "yes"
                /\ last'.ret = RetNum(Len(SelectSeq(doc.items, RecordShaped)))
      ]_vars

\* C20 amended: importTodos of an array makes the collection the
\* record-shaped entries of the array and issues a write of it; when the write
\* succeeds the storage holds the collection and the call returns the number
\* of entries kept; when it fails, as it does when a kept entry has a date
\* that cannot be parsed, the call throws and the storage is as it was.
C20_Import ==
    [][last'.op = "importTodos" =>
        \A doc \in ImportTexts :
            (doc.parses /\ doc.isArray /\ importTodos(doc)) =>
                /\ HoldsEntriesOf(todos', doc.items)
                /\ last'.wrote # "no"
                /\ (\E i \in DOMAIN todos' :
                        ~todos'[i].createdAt.b \/ ~todos'[i].updatedAt.b)
                      => last'.wrote = "failed"
                /\ last'.wrote = "yes" =>
                      /\ last'.ret =
                            RetNum(Len(SelectSeq(doc.items, RecordShaped)))
                      /\ loadTodos(localStorage') = todos'
                /\ last'.wrote = "failed" =>
                      /\ last'.err = "Error"
                      /\ localStorage' = localStorage]_vars

\* C20 witness: after some other call, importTodos of an array of four
\* entries returned 2, and the collection and the storage hold the two
\* record-shaped ones.
C20_Witness ==
    /\ calls = 2
    /\ last.op = "importTodos"
    /\ last.ret = RetNum(2)
    /\ Len(todos) = 2
    /\ todos[1].id = Str(Rep("k", 1)) /\ todos[1].completed = Bool(FALSE)
    /\ todos[2].id = Str(Rep("k", 1)) /\ todos[2].completed = Bool(TRUE)
    /\ loadTodos(localStorage) = todos

\* The value is a string that new Date parses as a timestamp.
ParsesAsTimestamp(v) == v.t = "string" /\ NewDate(v).b

\* The entry is record-shaped and its two dates parse as timestamps.
KeptByImport(e) ==
    /\ RecordShaped(e)
    /\ ParsesAsTimestamp(e.o.createdAt)
    /\ ParsesAsTimestamp(e.o.updatedAt)

\* C21: importTodos keeps the entries whose id and text are strings, whose
\* completed is a boolean and whose createdAt and updatedAt parse as
\* timestamps, and skips every other entry, one whose date is a string that
\* does not parse included.
C21_ImportSkipsUnparseableDates ==
    [][last'.op = "importTodos" =>
        \A doc \in ImportTexts :
            (doc.parses /\ doc.isArray /\ importTodos(doc)) =>
                LET kept == SelectSeq(doc.items, KeptByImport) IN
                /\ Len(todos') = Len(kept)
                /\ \A i \in DOMAIN kept : todos'[i].id = kept[i].o.id]_vars

\* C22: importTodos of a text that does not parse, or that parses to a value
\* that is not an array, throws an error that is neither a ValidationError
\* nor a StorageError, writes nothing, and leaves the collection, the filter
\* and the storage as they were.
C22_ImportRejects ==
    [][last'.op = "importTodos" =>
        \A doc \in ImportTexts :
            ((~doc.parses \/ ~doc.isArray) /\ importTodos(doc)) =>
                /\ last'.err = "Error"
                /\ last'.wrote = "no"
                /\ UNCHANGED << todos, currentFilter, localStorage >>]_vars

\* C22 witness: importTodos threw the generic error without a write while the
\* collection held the two stored records and the filter was completed.
C22_Witness ==
    /\ calls = 1
    /\ last.op = "importTodos"
    /\ last.err = "Error"
    /\ last.wrote = "no"
    /\ Len(todos) = 2
    /\ currentFilter = "completed"

\* The records entry is absent, or is a text that does not parse, or a value
\* that is not an array, or an array with an entry that is not record-shaped.
AbsentOrCorrupt(item) ==
    \/ ~item.present
    \/ ~item.parses
    \/ ~item.isArray
    \/ \E i \in DOMAIN item.items : ~RecordShaped(item.items[i])

\* C23: right after construction from a records entry that is absent or
\* corrupt, the collection is empty and the constructor has thrown nothing.
C23_CorruptStartsEmpty ==
    (calls = 0 /\ AbsentOrCorrupt(localStorage[TODOS_KEY])) =>
        /\ todos = << >>
        /\ last.err = "none"

\* C24: the record a successful addTodo returned has createdAt equal to
\* updatedAt, whatever the clock did between the reads of addTodo.
C24_CreatedEqualsUpdated ==
    (last.op = "addTodo" /\ last.ret.k = "todo") =>
        last.ret.todo.createdAt = last.ret.todo.updatedAt

\* C25: an array that getAllTodos or getFilteredTodos returned keeps its
\* length and its elements through every later call that is not a getter,
\* under every filter.
C25_ReturnedArrayIsACopy ==
    [][(held.by \in {"getAllTodos", "getFilteredTodos"}
        /\ last'.op \notin {"getAllTodos", "getFilteredTodos"})
          => held'.elements = held.elements]_vars

\* The operations that write the records entry.
RecordsOps ==
    {"addTodo", "updateTodo", "toggleTodo", "deleteTodo",
     "deleteCompletedTodos", "clearAll", "importTodos"}

\* The filter in memory is not the filter that would be loaded.
FilterDiverged == loadFilter(localStorage) # currentFilter

\* The collection in memory is not the collection that would be loaded.
RecordsDiverged == loadTodos(localStorage) # todos

\* C26 as stated: an operation that writes the records entry successfully
\* makes the stored records equal to the collection, and a divergence of the
\* filter ends only by a successful setFilter.
C26_OnlySetFilterRepairs ==
    [][/\ (last'.op \in RecordsOps /\ last'.wrote = "yes") => ~RecordsDiverged'
       /\ (FilterDiverged /\ ~FilterDiverged') =>
             (last'.op = "setFilter" /\ last'.wrote = "yes")]_vars

\* C26: an operation that writes the records entry successfully makes the
\* stored records equal to the collection, whatever failed before; a records
\* operation leaves the filter and the filter entry as they were; a successful
\* setFilter makes the filter entry equal to the filter; and a divergence of
\* the filter ends only by setFilter, by clearStorage or by the constructor.
C26_WritesRepair ==
    [][/\ (last'.op \in RecordsOps /\ last'.wrote = "yes") => ~RecordsDiverged'
       /\ last'.op \in RecordsOps =>
             /\ currentFilter' = currentFilter
             /\ localStorage'[FILTER_KEY] = localStorage[FILTER_KEY]
       /\ (last'.op = "setFilter" /\ last'.wrote = "yes") => ~FilterDiverged'
       /\ (FilterDiverged /\ ~FilterDiverged') =>
             \/ last'.op = "setFilter"
             \/ last'.op = "clearStorage" /\ last'.wrote = "yes"
             \/ last'.op = "constructor"]_vars

\* C26 witness: after a write that failed, a records operation wrote two
\* records, and the stored records are the collection.
C26_Witness ==
    /\ failures = 1
    /\ calls = 2
    /\ last.op \in RecordsOps
    /\ last.wrote = "yes"
    /\ Len(todos) = 2
    /\ ~RecordsDiverged

\* After a setFilter whose write failed, a records operation wrote the
\* collection, and the filter entry is still not the filter.
C26_WitnessFilter ==
    /\ failures = 1
    /\ calls = 2
    /\ last.op \in RecordsOps
    /\ last.wrote = "yes"
    /\ currentFilter = "pending"
    /\ FilterDiverged

\* After a setFilter whose write failed, clearStorage ended the divergence.
C26_WitnessCleared ==
    /\ failures = 1
    /\ calls = 2
    /\ last.op = "clearStorage"
    /\ last.wrote = "yes"
    /\ localStorage[FILTER_KEY] = AbsentItem
    /\ ~FilterDiverged

C27_WitnessCleared ==
    /\ last.op = "clearStorage"
    /\ last.err = "none"
    /\ calls = 2
    /\ todos = << >>
    /\ currentFilter = "all"
    /\ localStorage[TODOS_KEY] = AbsentItem
    /\ localStorage[FILTER_KEY] = AbsentItem

====
